---- MODULE Spec2Model ----
(***************************************************************************)
(* Model of rul_pm/results/results.py: life segmentation, time             *)
(* reconstruction, FittedLife point and error metrics, the binned error    *)
(* aggregation of CVResults, the metric_J sweep and transform_results;     *)
(* of PerColumnImputer (rul_pm/transformation/features/imputers.py) and    *)
(* of Batcher (rul_pm/iterators/batcher.py).                               *)
(*                                                                         *)
(* Conventions.                                                            *)
(*  - Arrays are sequences; Python index i is TLA+ index i + 1.  Indices   *)
(*    stored in the state (ranges, degrading_start) are Python indices.    *)
(*  - RUL values are integers.  Every time quantity (the time axis, the    *)
(*    end of life, the maintenance point, the unexploited lifetime) is     *)
(*    stored as TWICE its value, because np.median of an even number of    *)
(*    integer steps is a half-integer.  A fault horizon m is an integer    *)
(*    and enters the time arithmetic as Twice(m).                          *)
(*  - An operation that raises returns a record with raised = TRUE.        *)
(*  - rmse, mae and the sample weights are exact fractions num / den; rmse *)
(*    is held as its square.  The statistics of an imputer are stored as   *)
(*    FOUR times their value.                                              *)
(***************************************************************************)
EXTENDS Integers, Sequences, FiniteSets, TLC

VARIABLES pc, call, fitted, q, cv, sweep, em, results, imp, bat

vars == <<pc, call, fitted, q, cv, sweep, em, results, imp, bat>>

\* ------------------------------------------------------------------ bounds
MaxVal == 2
MaxLen == 5
MaxStream == 4
MaxM == 2
MaxFold == 2
MaxBins == 2
MaxTransforms == 2
MaxChunks == 2
MaxItems == 4
MaxBatch == 3

\* A life cut out of a stream of MaxStream samples, between the dropped
\* first sample and a dropped boundary sample.
MaxLife == MaxStream - 2

\* The batches after which a Batcher that restarts is left: enough for one
\* that does not restart to reach the end of any iterator.
MaxBatches == MaxItems + 2

Vals == 0..MaxVal

\* "No threshold" (RUL_threshold=None) and NaN, as values outside the domain.
None == 0 - 1
NaN == 0 - 2

SeqsUpTo(S, n) == UNION {[1..k -> S] : k \in 0..n}

\* The example of the life splitting property, and a stream of two lives
\* of more than one sample each.
ExampleStreams == {<<3, 2, 1, 5, 4, 3, 2, 1>>, <<2, 1, 0, 0, 2, 1, 0>>,
                   <<5, 4, 3, 2, 1, 0>>}

\* ------------------------------------------------------------------ numpy
Twice(x) == x + x

\* np.squeeze of a one-dimensional array with exactly one element is a
\* 0-dimensional array: it has no len(), cannot be sliced or indexed, and
\* np.diff refuses it.
ZeroDim(y) == Len(y) = 1

\* np.diff
Diff(s) == [k \in 1..(Len(s) - 1) |-> s[k + 1] - s[k]]

\* a[::-1]
Reversed(s) == [k \in 1..Len(s) |-> s[Len(s) + 1 - k]]

\* a[d:]
From(s, d) == SubSeq(s, d + 1, Len(s))

\* np.cumsum
RECURSIVE CumSum(_)
CumSum(s) ==
    IF Len(s) = 0 THEN <<>>
    ELSE LET p == CumSum(SubSeq(s, 1, Len(s) - 1))
         IN  Append(p, (IF Len(p) = 0 THEN 0 ELSE p[Len(p)]) + s[Len(s)])

RECURSIVE Insert(_, _)
Insert(sorted, x) ==
    IF Len(sorted) = 0 THEN <<x>>
    ELSE IF x <= sorted[1] THEN <<x>> \o sorted
    ELSE <<sorted[1]>> \o Insert(Tail(sorted), x)

RECURSIVE Sorted(_)
Sorted(s) == IF Len(s) = 0 THEN <<>> ELSE Insert(Sorted(Tail(s)), s[1])

\* Twice np.median of a non-empty array: the middle element, or the mean of
\* the two middle elements.
Median2(s) ==
    LET t == Sorted(s)
        n == Len(s)
    IN  IF n % 2 = 1 THEN Twice(t[(n + 1) \div 2])
        ELSE t[n \div 2] + t[n \div 2 + 1]

\* range(a, b) as the sequence of its members
Range(a, b) == [k \in 1..(IF b > a THEN b - a ELSE 0) |-> a + k - 1]

\* y[r] for a range r: the elements at the Python indices of r
Take(y, r) == [k \in 1..Len(r) |-> y[r[k] + 1]]

\* ------------------------------------------------------ split_lives_indices
\* np.where(np.diff(np.squeeze(y_true)) > 0)[0].tolist()
RECURSIVE Jumps(_, _)
Jumps(y, i) ==
    IF i + 1 >= Len(y) THEN <<>>
    ELSE (IF y[i + 2] - y[i + 1] > 0 THEN <<i>> ELSE <<>>) \o Jumps(y, i + 1)

RECURSIVE LivesLoop(_, _)
LivesLoop(lives_indices, i) ==
    IF i >= Len(lives_indices) - 1 THEN <<>>
    ELSE LET r == Range(lives_indices[i + 1] + 1, lives_indices[i + 2])
         IN  (IF Len(r) = 0 THEN <<>> ELSE <<r>>) \o LivesLoop(lives_indices, i + 1)

split_lives_indices(y_true) ==
    IF ZeroDim(y_true)
    THEN [raised |-> TRUE, indices |-> <<>>]
    ELSE LET lives_indices == <<0>> \o Jumps(y_true, 0) \o <<Len(y_true)>>
         IN  [raised |-> FALSE, indices |-> LivesLoop(lives_indices, 0)]

\* ----------------------------------------------------- compute_time_feature
\* A variant of FirstBelow that also stops at a sample equal to the threshold.
RECURSIVE FirstBelow_AtOrBelow(_, _, _)
FirstBelow_AtOrBelow(y, thr, i) ==
    IF i >= Len(y) THEN None
    ELSE IF y[i + 1] <= thr THEN i
    ELSE FirstBelow_AtOrBelow(y, thr, i + 1)

RECURSIVE FirstBelow(_, _, _)
FirstBelow(y, thr, i) ==
    IF i >= Len(y) THEN None
    ELSE IF y[i + 1] < thr THEN i
    ELSE FirstBelow(y, thr, i + 1)

_degrading_start(y_true, RUL_threshold) ==
    IF RUL_threshold = None THEN 0
    ELSE LET first == FirstBelow(y_true, RUL_threshold, 0)
         IN  IF first # None THEN first ELSE 0

\* The step array before np.cumsum, in half-units.
TimeSteps(y_true, degrading_start) ==
    LET time_diff == Diff(Reversed(From(y_true, degrading_start)))
        fill == IF Len(time_diff) > 0 THEN Median2(time_diff) ELSE Twice(1)
    IN  [k \in 1..Len(y_true) |->
            IF k - 1 > degrading_start THEN Twice(time_diff[k - 1 - degrading_start])
            ELSE IF degrading_start > 0 THEN fill
            ELSE 0]

_compute_time(y_true, degrading_start) ==
    IF ZeroDim(y_true)
    THEN [raised |-> TRUE, time |-> <<>>]
    ELSE [raised |-> FALSE, time |-> CumSum(TimeSteps(y_true, degrading_start))]

compute_time_feature(y_true, RUL_threshold) ==
    LET degrading_start == _degrading_start(y_true, RUL_threshold)
        t == _compute_time(y_true, degrading_start)
    IN  [raised |-> t.raised,
         degrading_start |-> IF t.raised THEN 0 ELSE degrading_start,
         time |-> t.time]

\* --------------------------------------------------------------- FittedLife
\* The time argument: None, an np.ndarray, or anything else (an int).
NoTime == [kind |-> "none", arr |-> <<>>]
TimeArray(arr) == [kind |-> "array", arr |-> arr]
TimeScalar == [kind |-> "scalar", arr |-> <<>>]

\* The fitter of rul_pm.results.picewise_regression, by its interface: it is
\* constructed with the not_increasing flag, add_point accepts one point and
\* finish returns the fitted function.  The function is represented by the
\* calls the fitter received, in order.
PiecewiseLinearRegression(not_increasing) ==
    [not_increasing |-> not_increasing, calls |-> <<>>]

add_point(pwlr, x, y) ==
    [pwlr EXCEPT !.calls = Append(@, [op |-> "add_point", x |-> x, y |-> y])]

finish(pwlr) ==
    [pwlr EXCEPT !.calls = Append(@, [op |-> "finish", x |-> 0, y |-> 0])]

NoLine == PiecewiseLinearRegression(FALSE)

NoLife == [y_true |-> <<>>, y_pred |-> <<>>, time |-> <<>>, degrading_start |-> 0,
           RUL_threshold |-> None, fit_line_not_increasing |-> FALSE,
           y_pred_fitted |-> NoLine, y_true_fitted |-> NoLine]

\* _fit_picewise_linear_regression(y) raises when y is 0-dimensional
\* (len() of an unsized object) or when self.time is shorter than y.  The
\* fitter it feeds (rul_pm.results.picewise_regression) accepts every point
\* and finishes, as its interface in the specification says.
FitRaises(time, y) == ZeroDim(y) \/ Len(time) < Len(y)

\* for j in range(len(y)): pwlr.add_point(self.time[j], y[j])
RECURSIVE FeedLoop(_, _, _, _)
FeedLoop(pwlr, time, y, j) ==
    IF j >= Len(y) THEN pwlr
    ELSE FeedLoop(add_point(pwlr, time[j + 1], y[j + 1]), time, y, j + 1)

\* _fit_picewise_linear_regression(y) where it does not raise: the line
_fit_picewise_linear_regression(time, y, fit_line_not_increasing) ==
    finish(FeedLoop(PiecewiseLinearRegression(fit_line_not_increasing), time, y, 0))

\* FittedLife.__init__: [raised, life]
FittedLife(y_true, y_pred, time, fit_line_not_increasing, RUL_threshold) ==
    LET made(d, t) ==
            IF FitRaises(t, y_pred) \/ FitRaises(t, y_true)
            THEN [raised |-> TRUE, life |-> NoLife]
            ELSE [raised |-> FALSE,
                  life |-> [y_true |-> y_true, y_pred |-> y_pred, time |-> t,
                            degrading_start |-> d,
                            RUL_threshold |-> RUL_threshold,
                            fit_line_not_increasing |-> fit_line_not_increasing,
                            y_pred_fitted |->
                                _fit_picewise_linear_regression(
                                    t, y_pred, fit_line_not_increasing),
                            y_true_fitted |->
                                _fit_picewise_linear_regression(
                                    t, y_true, fit_line_not_increasing)]]
    IN  IF time.kind # "none"
        THEN IF time.kind = "array"
             THEN made(_degrading_start(y_true, RUL_threshold), time.arr)
             \* np.linspace(0, y_true[0], n=len(y_true)): linspace has no
             \* keyword n (and a 0-dimensional y_true cannot be indexed)
             ELSE [raised |-> TRUE, life |-> NoLife]
        ELSE LET r == compute_time_feature(y_true, RUL_threshold)
             IN  IF r.raised THEN [raised |-> TRUE, life |-> NoLife]
                 ELSE made(r.degrading_start, r.time)

\* ------------------------------------------------------------ point metrics
\* A variant of FirstZero that finds the last sample equal to 0.
RECURSIVE FirstZero_Last(_, _)
FirstZero_Last(y, i) ==
    IF i >= Len(y) THEN None
    ELSE LET later == FirstZero_Last(y, i + 1)
         IN  IF later # None THEN later
             ELSE IF y[i + 1] = 0 THEN i ELSE None

RECURSIVE FirstZero(_, _)
FirstZero(y, i) ==
    IF i >= Len(y) THEN None
    ELSE IF y[i + 1] = 0 THEN i
    ELSE FirstZero(y, i + 1)

EndOfLifeOf(time, y) ==
    LET z == FirstZero(y, 0)
    IN  IF z = None THEN time[Len(time)] + Twice(y[Len(y)])
        ELSE time[z + 1]

predicted_end_of_life(life) == EndOfLifeOf(life.time, life.y_pred)

end_of_life(life) == EndOfLifeOf(life.time, life.y_true)

\* A variant of maintenance_point that adds the fault horizon.
maintenance_point_Added(life, m) == predicted_end_of_life(life) + Twice(m)

maintenance_point(life, m) == predicted_end_of_life(life) - Twice(m)

unexploited_lifetime(life, m) ==
    IF maintenance_point(life, m) < end_of_life(life)
    THEN end_of_life(life) - maintenance_point(life, m)
    ELSE 0

\* A variant of unexpected_break that reports no break when the maintenance
\* point is exactly the end of life.
unexpected_break_Strict(life, m) ==
    IF maintenance_point(life, m) <= end_of_life(life) THEN FALSE ELSE TRUE

unexpected_break(life, m) ==
    IF maintenance_point(life, m) < end_of_life(life) THEN FALSE ELSE TRUE

\* -------------------------------------------------------------- split_lives
\* np.any(np.isnan(y))
AnyNaN(y) == \E k \in 1..Len(y) : y[k] = NaN

RECURSIVE SplitLoop(_, _, _, _, _, _, _)
SplitLoop(ranges, i, y_true, y_pred, RUL_threshold, fit_line_not_increasing, time) ==
    IF i > Len(ranges) THEN [raised |-> FALSE, lives |-> <<>>]
    ELSE LET r == ranges[i]
             rest == SplitLoop(ranges, i + 1, y_true, y_pred, RUL_threshold,
                               fit_line_not_increasing, time)
         IN  IF AnyNaN(Take(y_pred, r)) THEN rest
             ELSE LET f == FittedLife(Take(y_true, r), Take(y_pred, r), time,
                                      fit_line_not_increasing, RUL_threshold)
                  IN  IF f.raised \/ rest.raised
                      THEN [raised |-> TRUE, lives |-> <<>>]
                      ELSE [raised |-> FALSE, lives |-> <<f.life>> \o rest.lives]

split_lives(y_true, y_pred, RUL_threshold, fit_line_not_increasing, time) ==
    LET idx == split_lives_indices(y_true)
    IN  IF idx.raised THEN [raised |-> TRUE, lives |-> <<>>]
        ELSE SplitLoop(idx.indices, 1, y_true, y_pred, RUL_threshold,
                       fit_line_not_increasing, time)

\* ---------------------------------------------------------------- CVResults
\* A statistic is the exact fraction num / den; np.zeros gives 0 / 1.
Zero == [num |-> 0, den |-> 1]

RECURSIVE SumSeq(_)
SumSeq(s) == IF Len(s) = 0 THEN 0 ELSE s[1] + SumSeq(Tail(s))

Abs(x) == IF x < 0 THEN 0 - x ELSE x

\* np.mean of a non-empty array
Mean(s) == [num |-> SumSeq(s), den |-> Len(s)]

\* Bin edges are the fractions num[j] / den: explicit (integer) edges have
\* den = 1, np.linspace(0, max_value, nbins + 1) has edges max_value * j / nbins
\* (exact fractions: the rounding of the floating-point edges is not modelled).
Linspace(max_value, nbins) ==
    IF nbins = 0 THEN [den |-> 1, num |-> <<0>>]
    ELSE [den |-> nbins, num |-> [k \in 1..(nbins + 1) |-> max_value * (k - 1)]]

ExplicitEdges(e) == [den |-> 1, num |-> e]

\* The bin_edges argument: None, or an array of edges
NoEdges == [given |-> FALSE, e |-> <<>>]
Edges(e) == [given |-> TRUE, e |-> e]

MaxOf(s) == CHOOSE x \in {s[k] : k \in 1..Len(s)} : \A k \in 1..Len(s) : s[k] <= x

\* A variant of InBin whose upper edge is exclusive.
InBin_HalfOpen(v, bin_edges, j) ==
    /\ v * bin_edges.den >= bin_edges.num[j + 1]
    /\ v * bin_edges.den < bin_edges.num[j + 2]

\* (y_true >= bin_edges[j]) & (y_true <= bin_edges[j + 1]) for one sample
InBin(v, bin_edges, j) ==
    /\ v * bin_edges.den >= bin_edges.num[j + 1]
    /\ v * bin_edges.den <= bin_edges.num[j + 2]

\* np.where(mask)[0]: the Python indices of the samples of bin j, increasing
RECURSIVE Where(_, _, _, _)
Where(y_true, bin_edges, j, k) ==
    IF k >= Len(y_true) THEN <<>>
    ELSE (IF InBin(y_true[k + 1], bin_edges, j) THEN <<k>> ELSE <<>>)
         \o Where(y_true, bin_edges, j, k + 1)

\* The loop of _add_fold_result over the bins j, j + 1, ...: per bin the
\* indices selected, and the statistics written (Zero where the bin is skipped).
RECURSIVE BinLoop(_, _, _, _)
BinLoop(y_pred, y_true, bin_edges, j) ==
    IF j >= Len(bin_edges.num) - 1 THEN <<>>
    ELSE LET indices == Where(y_true, bin_edges, j, 0)
             errors == [k \in 1..Len(indices) |->
                           y_true[indices[k] + 1] - y_pred[indices[k] + 1]]
             row == IF Len(indices) = 0
                    THEN [indices |-> indices, errors |-> errors, mean_error |-> Zero,
                          mae |-> Zero, mse |-> Zero]
                    ELSE [indices |-> indices, errors |-> errors,
                          mean_error |-> Mean(errors),
                          mae |-> Mean([k \in 1..Len(errors) |-> Abs(errors[k])]),
                          mse |-> Mean([k \in 1..Len(errors) |-> errors[k] * errors[k]])]
         IN  <<row>> \o BinLoop(y_pred, y_true, bin_edges, j + 1)

\* _add_fold_result for one fold: [raised, rows].  A fold of exactly one
\* sample is squeezed to a 0-dimensional array: np.where on a 0-dimensional
\* mask raises in numpy builds where nonzero of a 0-d array is an error
\* (nonzero0d_raises); in the others it selects index 0 when the sample is in
\* the bin, and indexing the 0-dimensional y_true with it raises.
_add_fold_result(y_pred, y_true, bin_edges, nonzero0d_raises) ==
    LET rows == BinLoop(y_pred, y_true, bin_edges, 0)
    IN  IF /\ ZeroDim(y_true)
           /\ \/ nonzero0d_raises /\ Len(rows) > 0
              \/ \E j \in 1..Len(rows) : Len(rows[j].indices) > 0
        THEN [raised |-> TRUE, rows |-> <<>>]
        ELSE [raised |-> FALSE, rows |-> rows]

RECURSIVE FoldLoop(_, _, _, _, _)
FoldLoop(y_true, y_pred, bin_edges, nonzero0d_raises, i) ==
    IF i > Len(y_true) THEN [raised |-> FALSE, folds |-> <<>>]
    ELSE LET f == _add_fold_result(y_pred[i], y_true[i], bin_edges, nonzero0d_raises)
             rest == FoldLoop(y_true, y_pred, bin_edges, nonzero0d_raises, i + 1)
         IN  IF f.raised \/ rest.raised THEN [raised |-> TRUE, folds |-> <<>>]
             ELSE [raised |-> FALSE, folds |-> <<f.rows>> \o rest.folds]

\* A variant of ErrorsOfRows that appends the error array of an empty bin too.
RECURSIVE ErrorsOfRows_All(_)
ErrorsOfRows_All(rows) ==
    IF Len(rows) = 0 THEN <<>>
    ELSE <<rows[1].errors>> \o ErrorsOfRows_All(Tail(rows))

\* self.errors: one array per (fold, bin) that reached the append
RECURSIVE ErrorsOfRows(_)
ErrorsOfRows(rows) ==
    IF Len(rows) = 0 THEN <<>>
    ELSE (IF Len(rows[1].indices) = 0 THEN <<>> ELSE <<rows[1].errors>>)
         \o ErrorsOfRows(Tail(rows))

RECURSIVE ErrorsOfFolds(_)
ErrorsOfFolds(folds) ==
    IF Len(folds) = 0 THEN <<>>
    ELSE ErrorsOfRows(folds[1]) \o ErrorsOfFolds(Tail(folds))

NoCV == [raised |-> FALSE, n_folds |-> 0, n_bins |-> 0,
         bin_edges |-> ExplicitEdges(<<>>), mean_error |-> <<>>, mae |-> <<>>,
         mse |-> <<>>, errors |-> <<>>, indices |-> <<>>,
         y_true |-> <<>>, y_pred |-> <<>>]

\* CVResults.__init__.  bin_edges is None (derive nbins bins) or explicit.
\* indices keeps, per fold and bin, the local `indices` of _add_fold_result.
CVResults(y_true, y_pred, nbins, bin_edges, nonzero0d_raises) ==
    IF ~bin_edges.given /\ (Len(y_true) = 0 \/ \E i \in 1..Len(y_true) : Len(y_true[i]) = 0)
    THEN [NoCV EXCEPT !.raised = TRUE, !.y_true = y_true, !.y_pred = y_pred]
    ELSE LET edges == IF ~bin_edges.given
                      THEN Linspace(MaxOf([i \in 1..Len(y_true) |-> MaxOf(y_true[i])]), nbins)
                      ELSE ExplicitEdges(bin_edges.e)
             r == FoldLoop(y_true, y_pred, edges, nonzero0d_raises, 1)
             stat(name) == [i \in 1..Len(r.folds) |->
                              [j \in 1..Len(r.folds[i]) |->
                                 IF name = "mean_error" THEN r.folds[i][j].mean_error
                                 ELSE IF name = "mae" THEN r.folds[i][j].mae
                                 ELSE r.folds[i][j].mse]]
         IN  IF r.raised
             THEN [NoCV EXCEPT !.raised = TRUE, !.y_true = y_true, !.y_pred = y_pred]
             ELSE [raised |-> FALSE,
                   n_folds |-> Len(y_true),
                   n_bins |-> Len(edges.num) - 1,
                   bin_edges |-> edges,
                   mean_error |-> stat("mean_error"),
                   mae |-> stat("mae"),
                   mse |-> stat("mse"),
                   errors |-> ErrorsOfFolds(r.folds),
                   indices |-> [i \in 1..Len(r.folds) |->
                                  [j \in 1..Len(r.folds[i]) |-> r.folds[i][j].indices]],
                   y_true |-> y_true, y_pred |-> y_pred]

\* ----------------------------------------------------------------- metric_J
\* np.linspace(0, window_size, n) for the sweeps whose points are integers:
\* n <= 1, or n - 1 divides window_size.
Windows(window_size, n) ==
    IF n = 0 THEN <<>>
    ELSE IF n = 1 THEN <<0>>
    ELSE [k \in 1..n |-> (window_size * (k - 1)) \div (n - 1)]

NoCost == [ub_sum |-> 0, ub_max |-> 0, ul_sum |-> 0, ul_max |-> 0, n |-> 0,
           q1 |-> 0, q2 |-> 0]

\* The body of "for r in lives" at one horizon m: [raised, cost].  np.max of
\* an empty array raises ValueError.  The cost record stands for mean_J =
\*   (q1 * ub_sum / (ub_max + eps) + q2 * ul_sum / (ul_max + 2 * eps)) / n
\* with eps = 0.0000000001 and the unexploited lifetimes in half-units.
FoldCost(r, m, q1, q2) ==
    IF Len(r) = 0 THEN [raised |-> TRUE, cost |-> NoCost]
    ELSE LET ub == [k \in 1..Len(r) |-> IF unexpected_break(r[k], m) THEN 1 ELSE 0]
             ul == [k \in 1..Len(r) |-> unexploited_lifetime(r[k], m)]
         IN  [raised |-> FALSE,
              cost |-> [ub_sum |-> SumSeq(ub), ub_max |-> MaxOf(ub),
                        ul_sum |-> SumSeq(ul), ul_max |-> MaxOf(ul),
                        n |-> Len(r), q1 |-> q1, q2 |-> q2]]

\* metric_J_from_cv: [raised, windows, J]; J[k] is the list J_of_m of the
\* per-fold costs at windows[k], whose np.mean is the value returned.
metric_J_from_cv(lives, window_size, n, q1, q2) ==
    LET windows == Windows(window_size, n)
        J_of(m) == [i \in 1..Len(lives) |-> FoldCost(lives[i], m, q1, q2)]
    IN  IF \E k \in 1..Len(windows), i \in 1..Len(lives) : J_of(windows[k])[i].raised
        THEN [raised |-> TRUE, windows |-> <<>>, J |-> <<>>]
        ELSE [raised |-> FALSE, windows |-> windows,
              J |-> [k \in 1..Len(windows) |->
                        [i \in 1..Len(lives) |-> J_of(windows[k])[i].cost]]]

\* split_lives_from_results(d): split_lives with its default arguments
split_lives_from_results(d) == split_lives(d.true, d.predicted, None, FALSE, NoTime)

\* metric_J(d, window_size, step): the call of metric_J_from_cv passes three
\* of its five required arguments, which raises TypeError whatever d is (a
\* raising split_lives_from_results raises before it).
metric_J(d, window_size, step) == [raised |-> TRUE, windows |-> <<>>, J |-> <<>>]

\* ----------------------------------------------------------- error metrics
\* The default c = 0.9 of compute_sample_weight, in tenths.
ClipTenths == 9

One == [num |-> 1, den |-> 1]

AddFrac(a, b) == [num |-> a.num * b.den + b.num * a.den, den |-> a.den * b.den]

RECURSIVE SumFrac(_)
SumFrac(s) == IF Len(s) = 0 THEN Zero ELSE AddFrac(s[1], SumFrac(Tail(s)))

\* np.mean of a non-empty array of fractions
MeanFrac(s) == [num |-> SumFrac(s).num, den |-> SumFrac(s).den * Len(s)]

\* A variant of compute_sample_weight that divides by the true value itself.
compute_sample_weight_NoClip(sample_weight, y_true, y_pred) ==
    [k \in 1..Len(y_true) |->
        IF sample_weight = "relative"
        THEN [num |-> Abs(y_true[k] - y_pred[k]), den |-> y_true[k]]
        ELSE One]

\* compute_sample_weight, per sample (the scalar 1 broadcasts):
\* np.abs(y_true - y_pred) / np.clip(y_true, c, np.inf), or 1
compute_sample_weight(sample_weight, y_true, y_pred) ==
    [k \in 1..Len(y_true) |->
        IF sample_weight = "relative"
        THEN [num |-> 10 * Abs(y_true[k] - y_pred[k]),
              den |-> IF 10 * y_true[k] < ClipTenths THEN ClipTenths
                      ELSE 10 * y_true[k]]
        ELSE One]

\* FittedLife.rmse, as its square np.mean(sw * (y_true - y_pred) ** 2)
rmse(life, sample_weight) ==
    LET sw == compute_sample_weight(sample_weight, life.y_true, life.y_pred)
    IN  MeanFrac([k \in 1..Len(life.y_true) |->
                    [num |-> sw[k].num * (life.y_true[k] - life.y_pred[k])
                                       * (life.y_true[k] - life.y_pred[k]),
                     den |-> sw[k].den]])

\* FittedLife.mae: np.mean(sw * np.abs(y_true - y_pred))
mae(life, sample_weight) ==
    LET sw == compute_sample_weight(sample_weight, life.y_true, life.y_pred)
    IN  MeanFrac([k \in 1..Len(life.y_true) |->
                    [num |-> sw[k].num * Abs(life.y_true[k] - life.y_pred[k]),
                     den |-> sw[k].den]])

\* -------------------------------------------------------- transform_results
\* The transformations tried: each receives an array and returns an array.
Transformations == {"plus_one", "double", "drop_first"}

Apply(transformation, a) ==
    IF transformation = "plus_one" THEN [k \in 1..Len(a) |-> a[k] + 1]
    ELSE IF transformation = "double" THEN [k \in 1..Len(a) |-> a[k] + a[k]]
    ELSE IF Len(a) = 0 THEN a ELSE Tail(a)

\* A variant of transform_results that leaves 'predicted' as it was.
transform_results_TrueOnly(results_dict, transformation) ==
    [model_name \in DOMAIN results_dict |->
        [i \in 1..Len(results_dict[model_name]) |->
            [results_dict[model_name][i] EXCEPT
                !.true = Apply(transformation, @)]]]

\* transform_results: the dictionary after the in-place rewrite (the fold
\* records of a dictionary are distinct objects)
transform_results(results_dict, transformation) ==
    [model_name \in DOMAIN results_dict |->
        [i \in 1..Len(results_dict[model_name]) |->
            [results_dict[model_name][i] EXCEPT
                !.true = Apply(transformation, @),
                !.predicted = Apply(transformation, @)]]]

\* --------------------------------------------------------- PerColumnImputer
\* One column of a DataFrame: finite values (0..MaxVal), NaN, and the two
\* infinities as values outside the domain.  The fitted statistics are held
\* in quarter-units (four times their value), so that medians and the
\* median of two statistics are integers.
PosInf == 0 - 3
NegInf == 0 - 4

IsFinite(x) == x >= 0

Quarters(x) == 4 * x

\* X.replace([np.inf, -np.inf], np.nan), without its NaN entries
FiniteOf(X) == SelectSeq(X, IsFinite)

\* X.max() and X.median() of the column: NaN entries are skipped,
\* and a column without a finite value gives NaN
ColumnMax(X) == IF Len(FiniteOf(X)) = 0 THEN NaN ELSE Quarters(MaxOf(FiniteOf(X)))
ColumnMedian(X) == IF Len(FiniteOf(X)) = 0 THEN NaN ELSE Twice(Median2(FiniteOf(X)))

\* .min(axis=1), .max(axis=1), .median(axis=1) of two statistics, NaN skipped
MinSkipNa(a, b) == IF a = NaN THEN b ELSE IF b = NaN THEN a ELSE IF a <= b THEN a ELSE b
MaxSkipNa(a, b) == IF a = NaN THEN b ELSE IF b = NaN THEN a ELSE IF a >= b THEN a ELSE b
MedianSkipNa(a, b) == IF a = NaN THEN b ELSE IF b = NaN THEN a ELSE (a + b) \div 2

\* fillna(0)
FillNa(x) == IF x = NaN THEN 0 ELSE x

\* _remove_na
_remove_na(self) ==
    [self EXCEPT !.data_max = FillNa(@), !.data_min = FillNa(@),
                 !.data_median = FillNa(@)]

\* PerColumnImputer.__init__: the three statistics are None
NewImputer == [is_none |-> TRUE, data_min |-> 0, data_max |-> 0, data_median |-> 0]

\* PerColumnImputer.fit
fit(self, X) ==
    LET col_to_max == ColumnMax(X)
        col_to_min == ColumnMax(X)
        col_to_median == ColumnMedian(X)
    IN  _remove_na([is_none |-> FALSE, data_min |-> col_to_min,
                    data_max |-> col_to_max, data_median |-> col_to_median])

\* PerColumnImputer.partial_fit
partial_fit(self, X) ==
    LET col_to_max == ColumnMax(X)
        col_to_min == ColumnMax(X)
        col_to_median == ColumnMedian(X)
        data_max == MaxSkipNa(self.data_max, col_to_max)
    IN  IF self.is_none
        THEN _remove_na([is_none |-> FALSE, data_min |-> col_to_min,
                         data_max |-> col_to_max, data_median |-> col_to_median])
        ELSE _remove_na([is_none |-> FALSE,
                         data_min |-> MinSkipNa(self.data_min, col_to_min),
                         data_max |-> data_max,
                         data_median |-> MedianSkipNa(data_max, col_to_median)])

\* PerColumnImputer.transform: [raised, X_new], X_new in quarter-units;
\* indexing the statistics of an imputer that was never fitted raises
transform(self, X) ==
    IF self.is_none THEN [raised |-> TRUE, X_new |-> <<>>]
    ELSE [raised |-> FALSE,
          X_new |-> [k \in 1..Len(X) |->
                        IF X[k] = PosInf THEN self.data_max
                        ELSE IF X[k] = NegInf THEN self.data_min
                        ELSE IF X[k] = NaN THEN self.data_median
                        ELSE Quarters(X[k])]]

\* ------------------------------------------------------------------ Batcher
\* The iterator a Batcher reads (rul_pm.iterators.iterators, a
\* WindowedDatasetIterator), by its contract: it holds N items, numbered
\* 0..N-1, and the position i of the next one; at_end() is true exactly when
\* no item remains, __next__ raises StopIteration there, and __iter__ starts
\* over.
NewIterator(N) == [N |-> N, i |-> 0]

iterator_len(it) == it.N

iterator_iter(it) == [it EXCEPT !.i = 0]

at_end(it) == it.i = it.N

\* ceil(a / b) for b > 0
Ceil(a, b) == (a + b - 1) \div b

\* Batcher.__init__; batches are the batches returned so far, each the
\* sequence of the items in it, and raised the exception of the last
\* __next__ call ("none" if it returned)
Batcher(iterator, batch_size, restart_at_end) ==
    [iterator |-> iterator, batch_size |-> batch_size,
     restart_at_end |-> restart_at_end, stop |-> FALSE,
     batches |-> <<>>, raised |-> "none"]

\* Batcher.__len__
__len__(self) == Ceil(iterator_len(self.iterator), self.batch_size)

\* Batcher.__iter__
__iter__(self) == [self EXCEPT !.iterator = iterator_iter(@)]

\* The try block of __next__: up to batch_size items, fewer when the
\* iterator raises StopIteration first.  np.concatenate of an empty list
\* raises ValueError.
ReadBatch(self) ==
    LET i == self.iterator.i
        n == IF self.iterator.N - i < self.batch_size
             THEN self.iterator.N - i ELSE self.batch_size
        X == [k \in 1..n |-> i + k - 1]
    IN  IF n = 0
        THEN [self EXCEPT !.raised = "ValueError"]
        ELSE [self EXCEPT !.iterator.i = i + n,
                          !.batches = Append(@, X),
                          !.raised = "none"]

\* A variant of __next__ that reads a batch without looking at at_end().
__next__Unchecked(self) ==
    IF self.stop THEN [self EXCEPT !.raised = "StopIteration"]
    ELSE ReadBatch(self)

\* Batcher.__next__
__next__(self) ==
    IF self.stop THEN [self EXCEPT !.raised = "StopIteration"]
    ELSE IF at_end(self.iterator)
         THEN IF self.restart_at_end THEN ReadBatch(__iter__(self))
              ELSE [self EXCEPT !.raised = "StopIteration"]
         ELSE ReadBatch(self)

\* ------------------------------------------------------------------ state
NoCall == [fn |-> "none", y_true |-> <<>>, RUL_threshold |-> None,
           raised |-> FALSE, indices |-> <<>>, degrading_start |-> 0,
           time |-> <<>>]

NoFitted == [via |-> "none", y_true |-> <<>>, y_pred |-> <<>>,
             RUL_threshold |-> None, time |-> NoTime, raised |-> FALSE,
             lives |-> <<>>]

NoQuery == [life |-> 0, m |-> 0, end_of_life |-> 0, predicted_end_of_life |-> 0,
            maintenance_point |-> 0, unexploited_lifetime |-> 0,
            unexpected_break |-> FALSE]

NoSweep == [fn |-> "none", d |-> <<>>, lives |-> <<>>, window_size |-> 0, n |-> 0,
            raised |-> FALSE, windows |-> <<>>, J |-> <<>>]

NoErrors == [life |-> 0, sample_weight |-> "None", sw |-> <<>>,
             rmse_squared |-> Zero, mae |-> Zero]

\* results.dict is the results dictionary (model name -> list of fold
\* records), results.transformation the last transformation applied to it
\* and results.applied the number of transform_results calls so far.
NoResults == [dict |-> <<>>, loaded |-> FALSE, transformation |-> "none",
              applied |-> 0]

\* imp.self is the imputer, imp.calls the fit / partial_fit calls it received
\* (op, X) and imp.X, imp.raised, imp.X_new the last transform call.
NoImputer == [self |-> NewImputer, calls |-> <<>>, transformed |-> FALSE,
              X |-> <<>>, raised |-> FALSE, X_new |-> <<>>]

NoBatcher == Batcher(NewIterator(0), 1, FALSE)

Init ==
    /\ pc = "idle"
    /\ call = NoCall
    /\ fitted = NoFitted
    /\ q = NoQuery
    /\ cv = NoCV
    /\ sweep = NoSweep
    /\ em = NoErrors
    /\ results = NoResults
    /\ imp = NoImputer
    /\ bat = NoBatcher

\* ----------------------------------------------------------------- inputs
Streams == SeqsUpTo(Vals, MaxLen) \cup ExampleStreams
Thresholds == {None} \cup (0..(MaxVal + 1))

SplitStreams == SeqsUpTo(Vals, MaxStream) \cup ExampleStreams

\* A predicted stream: the true stream shifted by a bias and clipped at 0,
\* with NaN at the positions of nans.
Predicted(y_true, bias, nans) ==
    [k \in 1..Len(y_true) |->
        IF (k - 1) \in nans THEN NaN
        ELSE IF y_true[k] + bias < 0 THEN 0 ELSE y_true[k] + bias]

\* The timestamps 0, 1, ... of n samples (in half-units)
Clock(n) == [k \in 1..n |-> Twice(k - 1)]

NanSets(n) == {{}} \cup {{i} : i \in 0..(n - 1)}

\* (bias, threshold, time kind) of a split_lives call
SplitModes ==
    ({0 - 1, 0} \X {None, 1} \X {"none"}) \cup ({0} \X {None, 1} \X {"array", "scalar"})

TimeArg(kind, n) ==
    IF kind = "none" THEN NoTime
    ELSE IF kind = "array" THEN TimeArray(Clock(n)) ELSE TimeScalar

\* (threshold, time kind) of a direct construction
LifeModes ==
    (({None} \cup (1..MaxVal)) \X {"none"}) \cup ({None, MaxVal} \X {"array"})
        \cup ({None} \X {"scalar"})

Horizons == 0..MaxM

\* Folds: one fold of every content up to MaxFold samples, alone or followed
\* by a second fold from a few examples.
Folds == SeqsUpTo(Vals, MaxFold)
SecondFolds == {<<>>, <<0, 1, 2>>, <<1>>, <<2, 2>>}
FoldLists == {<<f>> : f \in Folds} \cup {<<f, g>> : f \in Folds, g \in SecondFolds}

\* Explicit bin edges: non-decreasing sequences of two or more edges
\* (strictly increasing ones, and ones with a repeated edge).
IsNonDecreasing(e) == \A k \in 1..(Len(e) - 1) : e[k] <= e[k + 1]
EdgeLists == {e \in SeqsUpTo(0..(MaxVal + 1), MaxBins + 1) : Len(e) >= 2 /\ IsNonDecreasing(e)}

\* ---------------------------------------------------------------- actions
CallSplitLivesIndices ==
    /\ pc = "idle"
    /\ \E y \in Streams :
         LET r == split_lives_indices(y)
         IN  call' = [NoCall EXCEPT !.fn = "split_lives_indices", !.y_true = y,
                                    !.raised = r.raised, !.indices = r.indices]
    /\ pc' = "called"
    /\ UNCHANGED <<fitted, q, cv, sweep, em, results, imp, bat>>

CallComputeTimeFeature ==
    /\ pc = "idle"
    /\ \E y \in Streams, thr \in Thresholds :
         LET r == compute_time_feature(y, thr)
         IN  call' = [NoCall EXCEPT !.fn = "compute_time_feature", !.y_true = y,
                                    !.RUL_threshold = thr, !.raised = r.raised,
                                    !.degrading_start = r.degrading_start,
                                    !.time = r.time]
    /\ pc' = "called"
    /\ UNCHANGED <<fitted, q, cv, sweep, em, results, imp, bat>>

CallDegradingStart ==
    /\ pc = "idle"
    /\ \E y \in Streams, thr \in Thresholds :
         call' = [NoCall EXCEPT !.fn = "_degrading_start", !.y_true = y,
                                !.RUL_threshold = thr,
                                !.degrading_start = _degrading_start(y, thr)]
    /\ pc' = "called"
    /\ UNCHANGED <<fitted, q, cv, sweep, em, results, imp, bat>>

CallSplitLives ==
    /\ pc = "idle"
    /\ \E y \in SplitStreams, mode \in SplitModes :
         \E nans \in NanSets(Len(y)) :
            LET y_pred == Predicted(y, mode[1], nans)
                time == TimeArg(mode[3], Len(y))
                r == split_lives(y, y_pred, mode[2], FALSE, time)
            IN  fitted' = [via |-> "split_lives", y_true |-> y, y_pred |-> y_pred,
                           RUL_threshold |-> mode[2], time |-> time,
                           raised |-> r.raised, lives |-> r.lives]
    /\ pc' = "fitted"
    /\ UNCHANGED <<call, q, cv, sweep, em, results, imp, bat>>

NewFittedLife ==
    /\ pc = "idle"
    /\ \E n \in 1..MaxLife, mode \in LifeModes :
         \E y \in [1..n -> Vals], y_pred \in [1..n -> Vals] :
            LET time == TimeArg(mode[2], n)
                r == FittedLife(y, y_pred, time, FALSE, mode[1])
            IN  fitted' = [via |-> "FittedLife", y_true |-> y, y_pred |-> y_pred,
                           RUL_threshold |-> mode[1], time |-> time,
                           raised |-> r.raised,
                           lives |-> IF r.raised THEN <<>> ELSE <<r.life>>]
    /\ pc' = "fitted"
    /\ UNCHANGED <<call, q, cv, sweep, em, results, imp, bat>>

\* One round of point-metric calls on a constructed life, for a horizon m.
PointMetrics ==
    /\ pc = "fitted"
    /\ \E i \in 1..Len(fitted.lives), m \in Horizons :
         LET life == fitted.lives[i]
         IN  q' = [life |-> i, m |-> m,
                   end_of_life |-> end_of_life(life),
                   predicted_end_of_life |-> predicted_end_of_life(life),
                   maintenance_point |-> maintenance_point(life, m),
                   unexploited_lifetime |-> unexploited_lifetime(life, m),
                   unexpected_break |-> unexpected_break(life, m)]
    /\ em' = NoErrors
    /\ UNCHANGED <<pc, call, fitted, cv, sweep, results, imp, bat>>

\* CVResults(y_true, y_pred, nbins=nbins) and
\* CVResults(y_true, y_pred, bin_edges=bin_edges)
NewCVResults ==
    /\ pc = "idle"
    /\ \E y \in FoldLists, bias \in {0 - 1, 0} :
       \E nonzero0d_raises \in IF \E i \in 1..Len(y) : ZeroDim(y[i])
                                THEN BOOLEAN ELSE {FALSE} :
         LET y_pred == [i \in 1..Len(y) |-> Predicted(y[i], bias, {})]
         IN  \/ \E nbins \in 1..MaxBins :
                  cv' = CVResults(y, y_pred, nbins, NoEdges, nonzero0d_raises)
             \/ \E e \in EdgeLists :
                  cv' = CVResults(y, y_pred, 5, Edges(e), nonzero0d_raises)
    /\ pc' = "cv"
    /\ UNCHANGED <<call, fitted, q, sweep, em, results, imp, bat>>

\* The results of the folds of one model: a list of {"true", "predicted"}
SweepStreams == SeqsUpTo(Vals, MaxLife + 1)
FoldResults ==
    {[true |-> y, predicted |-> Predicted(y, bias, nans)] :
        y \in SweepStreams, bias \in {0 - 1, 0}, nans \in {{}, {0}}}
SecondResults ==
    {[true |-> <<2, 1, 0>>, predicted |-> <<2, 1, 0>>],
     [true |-> <<1, 0, 2, 1>>, predicted |-> <<0, 0, 2, 2>>],
     [true |-> <<1, 0>>, predicted |-> <<NaN, 0>>]}
LaterResultLists ==
    {<<d>> : d \in SecondResults} \cup {<<d, e>> : d \in SecondResults, e \in SecondResults}
ResultLists == {<<d>> : d \in FoldResults} \cup LaterResultLists

\* (window_size, n) with integer sweep points
SweepArgs ==
    {a \in (0..MaxM) \X (0..(MaxM + 1)) : a[2] <= 1 \/ a[1] % (a[2] - 1) = 0}

\* metric_J_from_cv(lives, window_size, n, q1, q2) on the lives that
\* split_lives_from_results retained in each fold
CallMetricJFromCV ==
    /\ pc = "idle"
    /\ \E d \in ResultLists, a \in SweepArgs, q1 \in {1}, q2 \in {2} :
         /\ \A i \in 1..Len(d) : ~split_lives_from_results(d[i]).raised
         /\ LET lives == [i \in 1..Len(d) |-> split_lives_from_results(d[i]).lives]
                r == metric_J_from_cv(lives, a[1], a[2], q1, q2)
            IN  sweep' = [fn |-> "metric_J_from_cv", d |-> d, lives |-> lives,
                          window_size |-> a[1], n |-> a[2], raised |-> r.raised,
                          windows |-> r.windows, J |-> r.J]
    /\ pc' = "swept"
    /\ UNCHANGED <<call, fitted, q, cv, em, results, imp, bat>>

\* metric_J(d, window_size, step)
CallMetricJ ==
    /\ pc = "idle"
    /\ \E d \in LaterResultLists, a \in SweepArgs :
         LET r == metric_J(d, a[1], a[2])
         IN  sweep' = [fn |-> "metric_J", d |-> d, lives |-> <<>>,
                       window_size |-> a[1], n |-> a[2], raised |-> r.raised,
                       windows |-> r.windows, J |-> r.J]
    /\ pc' = "swept"
    /\ UNCHANGED <<call, fitted, q, cv, em, results, imp, bat>>

\* The sample_weight argument: None, "relative", or any other value
SampleWeights == {"None", "relative", "other"}

\* life.rmse(sample_weight) and life.mae(sample_weight) on a constructed life;
\* q and em hold what the last method calls returned.
ErrorMetrics ==
    /\ pc = "fitted"
    /\ \E i \in 1..Len(fitted.lives), sample_weight \in SampleWeights :
         LET life == fitted.lives[i]
         IN  em' = [life |-> i, sample_weight |-> sample_weight,
                    sw |-> compute_sample_weight(sample_weight, life.y_true,
                                                 life.y_pred),
                    rmse_squared |-> rmse(life, sample_weight),
                    mae |-> mae(life, sample_weight)]
    /\ q' = NoQuery
    /\ UNCHANGED <<pc, call, fitted, cv, sweep, results, imp, bat>>

\* Fold records: 'true', 'predicted' and one more key
FoldRecords ==
    {[true |-> <<2, 1, 0>>, predicted |-> <<1, 1, 0>>, name |-> "fold0"],
     [true |-> <<1>>, predicted |-> <<>>, name |-> "fold1"]}

ModelNames == {"model_a", "model_b"}

ResultDicts ==
    UNION {[names -> SeqsUpTo(FoldRecords, MaxFold)] : names \in SUBSET ModelNames}

\* A results dictionary is built (outside this module)
LoadResults ==
    /\ pc = "idle"
    /\ \E d \in ResultDicts :
         results' = [dict |-> d, loaded |-> TRUE, transformation |-> "none",
                     applied |-> 0]
    /\ pc' = "results"
    /\ UNCHANGED <<call, fitted, q, cv, sweep, em, imp, bat>>

\* transform_results(results_dict, transformation)
TransformResults ==
    /\ pc = "results"
    /\ results.applied < MaxTransforms
    /\ \E transformation \in Transformations :
         results' = [dict |-> transform_results(results.dict, transformation),
                     loaded |-> TRUE, transformation |-> transformation,
                     applied |-> results.applied + 1]
    /\ UNCHANGED <<pc, call, fitted, q, cv, sweep, em, imp, bat>>

\* Columns: every content up to MaxFold rows for the first chunk, a few for
\* the chunks after it and for transform
Entries == Vals \cup {NaN, PosInf, NegInf}
Columns == SeqsUpTo(Entries, MaxFold)
LaterColumns == {<<0>>, <<NaN, NegInf>>, <<1, 1, 2>>}
TransformColumns == {<<PosInf, NegInf, NaN, 1>>, <<>>}

\* imputer.fit(X) on a new imputer
Fit ==
    /\ pc = "idle"
    /\ \E X \in Columns :
         imp' = [NoImputer EXCEPT !.self = fit(NewImputer, X),
                                  !.calls = <<[op |-> "fit", X |-> X]>>]
    /\ pc' = "imputer"
    /\ UNCHANGED <<call, fitted, q, cv, sweep, em, results, bat>>

\* imputer.partial_fit(X), on a new imputer or after earlier chunks
PartialFit ==
    /\ pc \in {"idle", "imputer"}
    /\ Len(imp.calls) < MaxChunks
    /\ \E X \in IF pc = "idle" THEN Columns ELSE LaterColumns :
         imp' = [imp EXCEPT !.self = partial_fit(imp.self, X),
                            !.calls = Append(@, [op |-> "partial_fit", X |-> X])]
    /\ pc' = "imputer"
    /\ UNCHANGED <<call, fitted, q, cv, sweep, em, results, bat>>

\* imputer.transform(X)
Transform ==
    /\ pc \in {"idle", "imputer"}
    /\ \E X \in TransformColumns :
         LET r == transform(imp.self, X)
         IN  imp' = [imp EXCEPT !.transformed = TRUE, !.X = X,
                                !.raised = r.raised, !.X_new = r.X_new]
    /\ pc' = "imputer"
    /\ UNCHANGED <<call, fitted, q, cv, sweep, em, results, bat>>

\* Batcher(iterator, batch_size, restart_at_end) over an iterator of N items
NewBatcher ==
    /\ pc = "idle"
    /\ \E N \in 0..MaxItems, batch_size \in 1..MaxBatch, restart_at_end \in BOOLEAN :
         bat' = Batcher(NewIterator(N), batch_size, restart_at_end)
    /\ pc' = "batcher"
    /\ UNCHANGED <<call, fitted, q, cv, sweep, em, results, imp>>

\* "for X, y in batcher": iter(batcher) ...
ForIter ==
    /\ pc = "batcher"
    /\ bat' = __iter__(bat)
    /\ pc' = "iterating"
    /\ UNCHANGED <<call, fitted, q, cv, sweep, em, results, imp>>

\* ... and next(batcher) until it raises; a Batcher that restarts is left
\* after MaxBatches batches
ForNext ==
    /\ pc = "iterating"
    /\ Len(bat.batches) < MaxBatches
    /\ bat' = __next__(bat)
    /\ pc' = IF bat'.raised = "none" THEN "iterating" ELSE "raised"
    /\ UNCHANGED <<call, fitted, q, cv, sweep, em, results, imp>>

Next ==
    \/ NewCVResults
    \/ CallSplitLivesIndices
    \/ CallComputeTimeFeature
    \/ CallDegradingStart
    \/ CallSplitLives
    \/ NewFittedLife
    \/ PointMetrics
    \/ CallMetricJFromCV
    \/ CallMetricJ
    \/ ErrorMetrics
    \/ LoadResults
    \/ TransformResults
    \/ Fit
    \/ PartialFit
    \/ Transform
    \/ NewBatcher
    \/ ForIter
    \/ ForNext

Spec == Init /\ [][Next]_vars

\* ======================================================================
\* Properties
\* ======================================================================

\* ---------------------------------------------------------------- C1
\* The boundary indices of a stream: every Python index i with
\* y_true[i + 1] > y_true[i].
Boundaries(y) == {i \in 0..(Len(y) - 2) : y[i + 2] > y[i + 1]}

\* ranges is, in stream order, the list of the maximal runs of consecutive
\* indices of 1..len-1 that hold no boundary index: the non-empty ranges
\* a+1 .. b-1 between consecutive breakpoints of [0] + boundaries + [len].
IsLifeSplit(y, ranges) ==
    LET B == Boundaries(y)
        n == Len(y)
        members(r) == {r[k] : k \in 1..Len(r)}
    IN  /\ \A a \in 1..Len(ranges) :
            LET r == ranges[a]
            IN  /\ Len(r) > 0
                /\ \A k \in 1..(Len(r) - 1) : r[k + 1] = r[k] + 1
                /\ (r[1] - 1) \in ({0} \cup B)
                /\ (r[Len(r)] + 1) \in (B \cup {n})
        /\ \A a \in 1..(Len(ranges) - 1) : ranges[a][Len(ranges[a])] < ranges[a + 1][1]
        /\ \A a, b \in 1..Len(ranges) : a # b => members(ranges[a]) \cap members(ranges[b]) = {}
        /\ UNION {members(ranges[a]) : a \in 1..Len(ranges)} = (1..(n - 1)) \ B

\* C1: for every numeric sequence y_true, split_lives_indices returns, in
\* order, exactly the non-empty ranges a+1 .. b-1 between consecutive
\* breakpoints; they are pairwise disjoint and hold neither index 0 nor a
\* boundary index; [3,2,1,5,4,3,2,1] gives {1} and {3,...,7}.
C1_SplitLivesIndices ==
    call.fn = "split_lives_indices" =>
        /\ ~call.raised
        /\ IsLifeSplit(call.y_true, call.indices)
        /\ call.y_true = <<3, 2, 1, 5, 4, 3, 2, 1>> =>
               call.indices = <<<<1>>, <<3, 4, 5, 6, 7>>>>

\* Whenever split_lives_indices returns, it returns the split C1 describes;
\* it raises exactly on a stream of one sample.
SplitLivesIndicesWhenReturned ==
    call.fn = "split_lives_indices" =>
        /\ call.raised <=> Len(call.y_true) = 1
        /\ ~call.raised =>
              /\ IsLifeSplit(call.y_true, call.indices)
              /\ call.y_true = <<3, 2, 1, 5, 4, 3, 2, 1>> =>
                     call.indices = <<<<1>>, <<3, 4, 5, 6, 7>>>>

\* ---------------------------------------------------------------- C2
Lives == {fitted.lives[i] : i \in 1..Len(fitted.lives)}

\* C2 as stated: for fault horizons m1 <= m2, unexpected_break(m1) implies
\* unexpected_break(m2).
C2_BreakMonotoneUp ==
    q.life # 0 /\ q.unexpected_break =>
        \A m2 \in Horizons : q.m <= m2 => unexpected_break(fitted.lives[q.life], m2)

\* C2 amended: for fault horizons m1 <= m2, unexpected_break(m2) implies
\* unexpected_break(m1): a larger horizon moves the maintenance point earlier,
\* so a break that a horizon leaves in place was there for every smaller one.
C2_BreakMonotoneDown ==
    /\ \A life \in Lives : \A m1, m2 \in Horizons :
          (m1 <= m2 /\ unexpected_break(life, m2)) => unexpected_break(life, m1)
    /\ q.life # 0 /\ q.unexpected_break =>
          \A m1 \in 0..q.m : unexpected_break(fitted.lives[q.life], m1)

\* A life queried at a positive horizon that still breaks, while a larger
\* horizon of the sweep does not.
C2_Witness ==
    /\ q.life # 0
    /\ q.m > 0
    /\ q.unexpected_break
    /\ \E m2 \in Horizons : m2 > q.m /\ ~unexpected_break(fitted.lives[q.life], m2)

\* ---------------------------------------------------------------- C3
\* C3: unexploited_lifetime(m) >= 0; exactly one of "unexpected_break(m) and
\* unexploited_lifetime(m) = 0" and "unexploited_lifetime(m) > 0 and no
\* unexpected break" holds; a positive unexploited lifetime is
\* end_of_life() - maintenance_point(m).
C3_UnexploitedVsBreak ==
    q.life # 0 =>
        /\ q.unexploited_lifetime >= 0
        /\ q.unexpected_break => q.unexploited_lifetime = 0
        /\ q.unexploited_lifetime > 0 => ~q.unexpected_break
        /\ q.unexpected_break \/ q.unexploited_lifetime > 0
        /\ q.unexploited_lifetime > 0 =>
               q.unexploited_lifetime = q.end_of_life - q.maintenance_point

\* The boundary case: maintenance exactly at the end of life, a break and
\* no unexploited lifetime.
C3_Witness ==
    /\ q.life # 0
    /\ q.maintenance_point = q.end_of_life
    /\ q.unexpected_break
    /\ q.unexploited_lifetime = 0
\* ---------------------------------------------------------------- C4
\* Twice the median of a non-empty array, by counting: x is the element of
\* rank r (1-based, in sorted order) when fewer than r elements are below x
\* and at least r elements are at most x.
HasRank(s, x, r) ==
    /\ \E k \in 1..Len(s) : s[k] = x
    /\ Cardinality({k \in 1..Len(s) : s[k] < x}) < r
    /\ Cardinality({k \in 1..Len(s) : s[k] <= x}) >= r

IsTwiceMedian(s, v) ==
    LET n == Len(s)
    IN  IF n % 2 = 1
        THEN \E k \in 1..n : HasRank(s, s[k], (n + 1) \div 2) /\ v = 2 * s[k]
        ELSE \E k, l \in 1..n : /\ HasRank(s, s[k], n \div 2)
                                /\ HasRank(s, s[l], n \div 2 + 1)
                                /\ v = s[k] + s[l]

\* time (in half-units) is the cumulative sum of the step sequence of C4 for
\* the life y and the degrading start d: with time_diff[k] =
\* y[len-2-k] - y[len-1-k] (the first difference of reversed(y[d:])),
\* step d+1+k is time_diff[k]; steps 0..d are the median of time_diff (1 when
\* time_diff is empty) when d > 0; step 0 is 0 when d = 0.
IsReconstructedTime(y, d, time) ==
    LET n == Len(y)
        step(i) == IF i = 0 THEN time[1] ELSE time[i + 1] - time[i]
        time_diff == [k \in 1..(n - d - 1) |-> y[n - k] - y[n - k + 1]]
    IN  /\ Len(time) = n
        /\ \A k \in 0..(n - d - 2) : step(d + 1 + k) = 2 * time_diff[k + 1]
        /\ (d > 0 /\ Len(time_diff) > 0) =>
               \E v \in {step(0)} : /\ IsTwiceMedian(time_diff, v)
                                    /\ \A i \in 0..d : step(i) = v
        /\ (d > 0 /\ Len(time_diff) = 0) => \A i \in 0..d : step(i) = 2 * 1
        /\ (d = 0 /\ n > 0) => step(0) = 0

\* C4: compute_time_feature(y_true, threshold) returns the cumulative sum of
\* the step sequence described above; [5,4,3,2,1,0] without a threshold gives
\* the time axis [0,1,2,3,4,5].
C4_ComputeTimeFeature ==
    call.fn = "compute_time_feature" =>
        /\ ~call.raised
        /\ IsReconstructedTime(call.y_true, call.degrading_start, call.time)
        /\ (call.y_true = <<5, 4, 3, 2, 1, 0>> /\ call.RUL_threshold = None) =>
               call.time = <<0, 2, 4, 6, 8, 10>>

\* Whenever compute_time_feature returns, it returns the time axis C4
\* describes; it raises exactly on a life of one sample.
ComputeTimeFeatureWhenReturned ==
    call.fn = "compute_time_feature" =>
        /\ call.raised <=> Len(call.y_true) = 1
        /\ ~call.raised =>
              /\ IsReconstructedTime(call.y_true, call.degrading_start, call.time)
              /\ (call.y_true = <<5, 4, 3, 2, 1, 0>> /\ call.RUL_threshold = None) =>
                     call.time = <<0, 2, 4, 6, 8, 10>>

\* ---------------------------------------------------------------- C5
\* C5: every FittedLife, constructed directly or produced by split_lives,
\* with the time axis reconstructed or passed by the caller, has
\* 0 <= degrading_start < length and len(time) = len(y_true) = len(y_pred).
C5_LifeInvariant ==
    \A life \in Lives :
        /\ 0 <= life.degrading_start
        /\ life.degrading_start < Len(life.y_true)
        /\ Len(life.time) = Len(life.y_true)
        /\ Len(life.y_true) = Len(life.y_pred)

\* The invariant of C5 holds of every life whose time axis was reconstructed
\* and of every directly constructed life; a life that split_lives builds with
\* a time axis passed by the caller carries the time axis of the whole stream.
LifeInvariantUnlessSplitWithTime ==
    /\ ~(fitted.via = "split_lives" /\ fitted.time.kind = "array") => C5_LifeInvariant
    /\ (fitted.via = "split_lives" /\ fitted.time.kind = "array") =>
          \A life \in Lives : /\ life.time = fitted.time.arr
                              /\ Len(life.time) > Len(life.y_true)

\* ---------------------------------------------------------------- C6
BelowThreshold(y, thr) == {i \in 0..(Len(y) - 1) : y[i + 1] < thr}

\* C6: degrading_start is 0 without a threshold, otherwise the smallest index
\* whose true value is strictly below the threshold, or 0 when there is none;
\* and when no sample is below the threshold, compute_time_feature gives what
\* it gives without a threshold.
C6_DegradingStart ==
    /\ call.fn = "_degrading_start" =>
          IF call.RUL_threshold = None THEN call.degrading_start = 0
          ELSE LET below == BelowThreshold(call.y_true, call.RUL_threshold)
               IN  IF below = {} THEN call.degrading_start = 0
                   ELSE /\ call.degrading_start \in below
                        /\ \A i \in below : call.degrading_start <= i
    /\ (/\ call.fn = "compute_time_feature"
        /\ call.RUL_threshold # None
        /\ BelowThreshold(call.y_true, call.RUL_threshold) = {}) =>
          LET r == compute_time_feature(call.y_true, None)
          IN  /\ call.raised = r.raised
              /\ call.degrading_start = 0
              /\ call.degrading_start = r.degrading_start
              /\ call.time = r.time

\* A threshold equal to a sample value: that sample is not below it, a later
\* one is.
C6_Witness ==
    /\ call.fn = "_degrading_start"
    /\ call.RUL_threshold # None
    /\ call.degrading_start > 0
    /\ \E i \in 0..(call.degrading_start - 1) :
          call.y_true[i + 1] = call.RUL_threshold

\* ---------------------------------------------------------------- C7
\* The ranges of the stream, and those among them without NaN in y_pred.
RangesOf(y) == split_lives_indices(y).indices
IsNaNFree(y_pred, r) == \A k \in 1..Len(r) : y_pred[r[k] + 1] # NaN

\* lives is, in order, one life per NaN-free range, holding that range's
\* samples.
IsSplitOf(y_true, y_pred, lives) ==
    LET ranges == RangesOf(y_true)
        kept == SelectSeq(ranges, LAMBDA r : IsNaNFree(y_pred, r))
    IN  /\ Len(lives) = Len(kept)
        /\ \A a \in 1..Len(kept) :
              /\ lives[a].y_true = [k \in 1..Len(kept[a]) |-> y_true[kept[a][k] + 1]]
              /\ lives[a].y_pred = [k \in 1..Len(kept[a]) |-> y_pred[kept[a][k] + 1]]

\* C7: split_lives returns, in order, one FittedLife for exactly the ranges
\* of split_lives_indices(y_true) without NaN in y_pred; a range with a NaN is
\* excluded whole, without raising; a NaN at a dropped index excludes no life.
\* Stated of the calls that leave the time axis to be reconstructed
\* (time=None, the default), where construction does not depend on the
\* caller's time argument.
C7_SplitLives ==
    (fitted.via = "split_lives" /\ fitted.time.kind = "none") =>
        /\ ~fitted.raised
        /\ IsSplitOf(fitted.y_true, fitted.y_pred, fitted.lives)

\* Whenever split_lives returns, it returns the lives C7 describes; with a
\* reconstructed time axis it raises exactly when the stream has one sample
\* or a NaN-free range of one sample.
SplitLivesWhenReturned ==
    fitted.via = "split_lives" =>
        /\ ~fitted.raised => IsSplitOf(fitted.y_true, fitted.y_pred, fitted.lives)
        /\ fitted.time.kind = "none" =>
              (fitted.raised <=>
                  \/ Len(fitted.y_true) = 1
                  \/ \E a \in 1..Len(RangesOf(fitted.y_true)) :
                        /\ Len(RangesOf(fitted.y_true)[a]) = 1
                        /\ IsNaNFree(fitted.y_pred, RangesOf(fitted.y_true)[a]))
\* ---------------------------------------------------------------- C8
\* v is the end of life read off the sequence y on the time axis time: the
\* time of the first sample equal to 0, or time[last] + y[last] when no
\* sample is 0 (in half-units).
IsEndOfLife(time, y, v) ==
    LET zeros == {z \in 0..(Len(y) - 1) : y[z + 1] = 0}
    IN  IF zeros = {} THEN v = time[Len(time)] + 2 * y[Len(y)]
        ELSE \E z \in zeros : (\A w \in zeros : z <= w) /\ v = time[z + 1]

\* C8: end_of_life() and predicted_end_of_life() return the time of the
\* first sample of y_true, y_pred equal to 0, and time[last] + value[last]
\* when there is none; maintenance_point(m) = predicted_end_of_life() - m.
C8_EndOfLife ==
    q.life # 0 =>
        LET life == fitted.lives[q.life]
        IN  /\ IsEndOfLife(life.time, life.y_true, q.end_of_life)
            /\ IsEndOfLife(life.time, life.y_pred, q.predicted_end_of_life)
            /\ q.maintenance_point = q.predicted_end_of_life - 2 * q.m

\* A life whose prediction never reaches 0 (the extrapolated case) and whose
\* true sequence reaches 0 twice at different times, queried at m > 0.
C8_Witness ==
    /\ q.life # 0
    /\ q.m > 0
    /\ LET life == fitted.lives[q.life]
       IN  /\ \A k \in 1..Len(life.y_pred) : life.y_pred[k] # 0
           /\ \E j, k \in 1..Len(life.y_true) :
                 /\ j < k
                 /\ life.y_true[j] = 0 /\ life.y_true[k] = 0
                 /\ life.time[j] # life.time[k]

\* ---------------------------------------------------------------- C9
Built == pc = "cv" /\ ~cv.raised

\* edge j (0-based) <= v <= edge j + 1 of the stored bin edges
Brackets(v, j) ==
    /\ cv.bin_edges.num[j + 1] <= v * cv.bin_edges.den
    /\ v * cv.bin_edges.den <= cv.bin_edges.num[j + 2]

EdgesIncrease ==
    \A j \in 1..(Len(cv.bin_edges.num) - 1) : cv.bin_edges.num[j] < cv.bin_edges.num[j + 1]

\* the bins (0-based) the sample k (0-based) of fold i contributed to
BinsOf(i, k) ==
    {j \in 0..(cv.n_bins - 1) :
        \E a \in 1..Len(cv.indices[i][j + 1]) : cv.indices[i][j + 1][a] = k}

\* C9: a sample contributes to bin j iff edge_j <= true value <= edge_{j+1};
\* with increasing edges a sample within [min_edge, max_edge] contributes to
\* one or two bins, two exactly when its value is an interior edge, and a
\* sample outside contributes to none.
C9_Binning ==
    Built =>
        \A i \in 1..cv.n_folds : \A k \in 0..(Len(cv.y_true[i]) - 1) :
            LET v == cv.y_true[i][k + 1]
                e == cv.bin_edges
                n == Cardinality(BinsOf(i, k))
            IN  /\ \A j \in 0..(cv.n_bins - 1) : (j \in BinsOf(i, k)) <=> Brackets(v, j)
                /\ EdgesIncrease =>
                      IF e.num[1] <= v * e.den /\ v * e.den <= e.num[Len(e.num)]
                      THEN /\ n \in {1, 2}
                           /\ n = 2 <=> \E j \in 2..(Len(e.num) - 1) : v * e.den = e.num[j]
                      ELSE n = 0

\* Increasing edges over a fold that has a sample on an interior edge (in
\* two bins), a sample in one bin only, and a sample outside the edges.
C9_Witness ==
    /\ Built
    /\ EdgesIncrease
    /\ \E i \in 1..cv.n_folds : \E k1, k2, k3 \in 0..(Len(cv.y_true[i]) - 1) :
          /\ Cardinality(BinsOf(i, k1)) = 2
          /\ Cardinality(BinsOf(i, k2)) = 1
          /\ Cardinality(BinsOf(i, k3)) = 0

\* ---------------------------------------------------------------- C10
\* the samples (0-based) of fold i whose true value lies in bin j (0-based)
SamplesIn(i, j) == {k \in 0..(Len(cv.y_true[i]) - 1) : Brackets(cv.y_true[i][k + 1], j)}

NonEmptyPairs == {p \in (1..cv.n_folds) \X (0..(cv.n_bins - 1)) : SamplesIn(p[1], p[2]) # {}}

\* the position of the pair p in fold-then-bin order among the non-empty pairs
PositionOf(p) ==
    1 + Cardinality({o \in NonEmptyPairs : o[1] < p[1] \/ (o[1] = p[1] /\ o[2] < p[2])})

\* C10: n_bins = len(bin_edges) - 1; mean_error, mae and mse have one entry
\* per (fold, bin); an empty (fold, bin) has the three statistics 0; errors
\* holds one array per non-empty (fold, bin), in fold-then-bin order, and
\* nothing for an empty one.
C10_EmptyBins ==
    Built =>
        /\ cv.n_bins = Len(cv.bin_edges.num) - 1
        /\ cv.n_folds = Len(cv.y_true)
        /\ \A stat \in {cv.mean_error, cv.mae, cv.mse} :
              /\ Len(stat) = cv.n_folds
              /\ \A i \in 1..cv.n_folds :
                    /\ Len(stat[i]) = cv.n_bins
                    /\ \A j \in 0..(cv.n_bins - 1) :
                          SamplesIn(i, j) = {} => stat[i][j + 1].num = 0
        /\ Len(cv.errors) = Cardinality(NonEmptyPairs)
        /\ \A p \in NonEmptyPairs :
              LET errors == cv.errors[PositionOf(p)]
                  y == cv.y_true[p[1]]
                  y_pred == cv.y_pred[p[1]]
              IN  /\ Len(errors) = Cardinality(SamplesIn(p[1], p[2]))
                  /\ \E idx \in [1..Len(errors) -> SamplesIn(p[1], p[2])] :
                        /\ \A a \in 1..(Len(errors) - 1) : idx[a] < idx[a + 1]
                        /\ \A a \in 1..Len(errors) :
                              errors[a] = y[idx[a] + 1] - y_pred[idx[a] + 1]

\* Two folds, an empty (fold, bin) before a non-empty one in the same fold
\* and a non-empty bin whose mean error is 0 all the same.
C10_Witness ==
    /\ Built
    /\ cv.n_folds = 2
    /\ \E i \in 1..cv.n_folds : \E j1, j2 \in 0..(cv.n_bins - 1) :
          /\ j1 < j2
          /\ SamplesIn(i, j1) = {}
          /\ SamplesIn(i, j2) # {}
    /\ \E p \in NonEmptyPairs : cv.mean_error[p[1]][p[2] + 1].num = 0
    /\ \E p \in NonEmptyPairs : cv.mae[p[1]][p[2] + 1].num # 0

\* ---------------------------------------------------------------- C11
\* The cost of fold r at horizon m, as metric_J_from_cv computes it
IsFoldCost(c, r, m) ==
    /\ c.n = Len(r)
    /\ c.ub_sum = Cardinality({k \in 1..Len(r) : unexpected_break(r[k], m)})
    /\ c.ub_max = IF c.ub_sum > 0 THEN 1 ELSE 0
    /\ c.ul_sum = SumSeq([k \in 1..Len(r) |-> unexploited_lifetime(r[k], m)])
    /\ \A k \in 1..Len(r) : unexploited_lifetime(r[k], m) <= c.ul_max
    /\ \E k \in 1..Len(r) : unexploited_lifetime(r[k], m) = c.ul_max

\* A returned sweep has n horizon points and one list of per-fold costs per
\* point.
IsSweep(s, lives) ==
    /\ ~s.raised
    /\ Len(s.windows) = s.n
    /\ Len(s.J) = s.n
    /\ \A k \in 1..s.n :
         /\ Len(s.J[k]) = Len(lives)
         /\ \A i \in 1..Len(lives) : IsFoldCost(s.J[k][i], lives[i], s.windows[k])

\* C11: metric_J(d, window_size, step) completes and returns the horizon
\* sweep with exactly one combined cost value per horizon point, each the
\* across-fold mean of the per-fold mean of the normalised costs.
C11_MetricJ ==
    sweep.fn = "metric_J" =>
        /\ \A i \in 1..Len(sweep.d) : ~split_lives_from_results(sweep.d[i]).raised
        /\ IsSweep(sweep,
                   [i \in 1..Len(sweep.d) |-> split_lives_from_results(sweep.d[i]).lives])

\* ---------------------------------------------------------------- C12
\* C12: metric_J_from_cv never raises, whatever the folds (empty ones
\* included) and the horizon step, and a term whose values are all zero in a
\* fold contributes exactly 0.
C12_MetricJFromCV ==
    sweep.fn = "metric_J_from_cv" =>
        /\ IsSweep(sweep, sweep.lives)
        /\ \A k \in 1..Len(sweep.J) : \A i \in 1..Len(sweep.J[k]) :
             /\ sweep.J[k][i].ub_max = 0 => sweep.J[k][i].ub_sum = 0
             /\ sweep.J[k][i].ul_max = 0 => sweep.J[k][i].ul_sum = 0

\* Where no fold is empty, or the sweep has no point, metric_J_from_cv
\* returns the sweep; it raises exactly when some fold is empty and the
\* sweep has a point.
MetricJFromCVWhenNoFoldEmpty ==
    sweep.fn = "metric_J_from_cv" =>
        /\ sweep.raised <=> (sweep.n > 0 /\ \E i \in 1..Len(sweep.lives) :
                                              Len(sweep.lives[i]) = 0)
        /\ ~sweep.raised => IsSweep(sweep, sweep.lives)

MetricJFromCVReturned ==
    /\ sweep.fn = "metric_J_from_cv"
    /\ ~sweep.raised
    /\ Len(sweep.lives) = 2
    /\ sweep.n = 3
    /\ \E k \in 1..3 : sweep.J[k][1].ul_max = 0 /\ sweep.J[k][1].ub_max = 1

\* ---------------------------------------------------------------- C13
\* The calls a fitter received are one add_point(time[j], y[j]) per sample,
\* in sample order, and then one finish.
IsFedInSampleOrder(line, time, y) ==
    /\ Len(line.calls) = Len(y) + 1
    /\ \A j \in 1..Len(y) :
         line.calls[j] = [op |-> "add_point", x |-> time[j], y |-> y[j]]
    /\ line.calls[Len(y) + 1].op = "finish"

\* Each inserted time is greater than the one inserted before it.
TimesIncrease(line) ==
    \A j \in 2..Len(line.calls) :
        line.calls[j].op = "add_point" => line.calls[j].x > line.calls[j - 1].x

TimesDoNotDecrease(line) ==
    \A j \in 2..Len(line.calls) :
        line.calls[j].op = "add_point" => line.calls[j].x >= line.calls[j - 1].x

SplitWithReconstructedTime ==
    fitted.via = "split_lives" /\ fitted.time.kind = "none" /\ ~fitted.raised

\* C13: for every life produced by split_lives with a reconstructed time
\* axis, each of the two fitters receives one add_point(time[j], value[j])
\* per sample, each inserted time greater than the one before, and finish
\* once after all points; also when the true RUL has equal consecutive values.
C13_FitterFeeding ==
    SplitWithReconstructedTime =>
        \A i \in 1..Len(fitted.lives) :
            LET life == fitted.lives[i]
            IN  /\ IsFedInSampleOrder(life.y_true_fitted, life.time, life.y_true)
                /\ IsFedInSampleOrder(life.y_pred_fitted, life.time, life.y_pred)
                /\ TimesIncrease(life.y_true_fitted)
                /\ TimesIncrease(life.y_pred_fitted)

\* What the code does: the points are fed in sample order and finish follows
\* them, for every constructed life; the inserted times of a split life with
\* a reconstructed time axis never decrease.
FitterFedInSampleOrder ==
    \A life \in Lives :
        /\ IsFedInSampleOrder(life.y_true_fitted, life.time, life.y_true)
        /\ IsFedInSampleOrder(life.y_pred_fitted, life.time, life.y_pred)
        /\ SplitWithReconstructedTime => TimesDoNotDecrease(life.y_true_fitted)

\* ---------------------------------------------------------------- C14
Measured == em.life # 0

MeasuredLife == fitted.lives[em.life]

\* C14: for a life whose predictions equal its true values at every sample,
\* rmse and mae are 0 under every weighting, true values of 0 included (the
\* relative weight divides by the true value clamped to at least 0.9, never
\* by 0); under a weighting other than "relative" every sample weighs 1.
C14_ZeroError ==
    Measured =>
        /\ \A k \in 1..Len(em.sw) :
             /\ em.sw[k].den > 0
             /\ em.sample_weight = "relative" => em.sw[k].den >= ClipTenths
             /\ em.sample_weight # "relative" => em.sw[k] = One
        /\ em.rmse_squared.den > 0
        /\ em.mae.den > 0
        /\ em.sample_weight # "relative" =>
             em.mae.num * Len(MeasuredLife.y_true) =
                 em.mae.den * SumSeq([k \in 1..Len(MeasuredLife.y_true) |->
                     Abs(MeasuredLife.y_true[k] - MeasuredLife.y_pred[k])])
        /\ MeasuredLife.y_true = MeasuredLife.y_pred =>
             em.rmse_squared.num = 0 /\ em.mae.num = 0

C14_Witness ==
    /\ Measured
    /\ em.sample_weight = "relative"
    /\ MeasuredLife.y_true = MeasuredLife.y_pred
    /\ Len(MeasuredLife.y_true) >= 3
    /\ \E k \in 1..Len(MeasuredLife.y_true) : MeasuredLife.y_true[k] = 0
    /\ \E k \in 1..Len(MeasuredLife.y_true) : MeasuredLife.y_true[k] > 0

\* ---------------------------------------------------------------- C15
\* new is old with transformation applied once to 'true' and to 'predicted'
\* of every fold of every model, and nothing else changed.
IsTransformedOnce(old, new, transformation) ==
    /\ DOMAIN new = DOMAIN old
    /\ \A model_name \in DOMAIN old :
         /\ Len(new[model_name]) = Len(old[model_name])
         /\ \A i \in 1..Len(old[model_name]) :
              /\ new[model_name][i].true =
                     Apply(transformation, old[model_name][i].true)
              /\ new[model_name][i].predicted =
                     Apply(transformation, old[model_name][i].predicted)
              /\ new[model_name][i].name = old[model_name][i].name

\* C15: transform_results rewrites the dictionary in place: afterwards every
\* stored 'true' and 'predicted' of every fold of every model is the
\* transformation applied once to its previous value, and the model names,
\* the number and order of folds and every other key are unchanged; the point
\* metrics of a constructed FittedLife change none of its fields.
C15_InPlace ==
    [][/\ results'.applied = results.applied + 1 =>
            IsTransformedOnce(results.dict, results'.dict, results'.transformation)
       /\ (em' # em \/ q' # q) => fitted' = fitted]_vars

C15_Witness ==
    /\ results.applied = 2
    /\ results.transformation = "plus_one"
    /\ DOMAIN results.dict = ModelNames
    /\ Len(results.dict["model_a"]) = 2
    /\ results.dict["model_a"][1].true = <<5, 3, 1>>
    /\ results.dict["model_a"][1].predicted = <<3, 3, 1>>

\* ---------------------------------------------------------------- C16
MinOf(s) == CHOOSE x \in {s[k] : k \in 1..Len(s)} : \A k \in 1..Len(s) : x <= s[k]

\* The finite values of all the chunks the imputer has seen
RECURSIVE SeenValues(_)
SeenValues(calls) ==
    IF Len(calls) = 0 THEN <<>>
    ELSE FiniteOf(calls[1].X) \o SeenValues(Tail(calls))

AfterFit == Len(imp.calls) = 1 /\ imp.calls[1].op = "fit"

AfterPartialFits ==
    Len(imp.calls) >= 1 /\ \A j \in 1..Len(imp.calls) : imp.calls[j].op = "partial_fit"

SeenSomeValue == Len(SeenValues(imp.calls)) > 0

\* C16: after fit(X), transform replaces every +inf by the column's maximum
\* finite fitted value, every -inf by its minimum finite fitted value and
\* every NaN by its median; after a sequence of partial_fit calls the stored
\* minimum and maximum are the minimum and maximum over all chunks seen.
C16_Imputer ==
    /\ (AfterFit /\ SeenSomeValue /\ imp.transformed) =>
          /\ ~imp.raised
          /\ Len(imp.X_new) = Len(imp.X)
          /\ \A k \in 1..Len(imp.X) :
               imp.X_new[k] =
                   IF imp.X[k] = PosInf THEN Quarters(MaxOf(SeenValues(imp.calls)))
                   ELSE IF imp.X[k] = NegInf THEN Quarters(MinOf(SeenValues(imp.calls)))
                   ELSE IF imp.X[k] = NaN THEN Twice(Median2(SeenValues(imp.calls)))
                   ELSE Quarters(imp.X[k])
    /\ (AfterPartialFits /\ SeenSomeValue) =>
          /\ imp.self.data_max = Quarters(MaxOf(SeenValues(imp.calls)))
          /\ imp.self.data_min = Quarters(MinOf(SeenValues(imp.calls)))

\* What the code does: +inf and NaN are replaced as documented and the
\* stored maximum is the maximum over all chunks, but -inf is replaced by the
\* maximum too, and the minimum stored by partial_fit is the least of the
\* chunks' maxima (where every chunk has a finite value).
ImputerAsCoded ==
    /\ (AfterFit /\ SeenSomeValue /\ imp.transformed) =>
          /\ ~imp.raised
          /\ Len(imp.X_new) = Len(imp.X)
          /\ \A k \in 1..Len(imp.X) :
               imp.X_new[k] =
                   IF imp.X[k] \in {PosInf, NegInf}
                   THEN Quarters(MaxOf(SeenValues(imp.calls)))
                   ELSE IF imp.X[k] = NaN THEN Twice(Median2(SeenValues(imp.calls)))
                   ELSE Quarters(imp.X[k])
    /\ (AfterPartialFits /\ SeenSomeValue) =>
          /\ imp.self.data_max = Quarters(MaxOf(SeenValues(imp.calls)))
          /\ (\A j \in 1..Len(imp.calls) : Len(FiniteOf(imp.calls[j].X)) > 0) =>
               /\ \E j \in 1..Len(imp.calls) :
                    imp.self.data_min = ColumnMax(imp.calls[j].X)
               /\ \A j \in 1..Len(imp.calls) :
                    imp.self.data_min <= ColumnMax(imp.calls[j].X)

\* ---------------------------------------------------------------- C17
NoThresholdTime ==
    /\ call.fn = "compute_time_feature"
    /\ call.RUL_threshold = None
    /\ ~call.raised
    /\ Len(call.y_true) >= 1
    /\ \A i \in 2..Len(call.y_true) : call.y_true[i] <= call.y_true[i - 1]

\* C17: with no threshold and a non-increasing true RUL, time[0] = 0 and
\* time[i] - time[i-1] = y_true[i-1] - y_true[i] for every i >= 1, so that
\* time[i] + y_true[i] = y_true[0] at every sample, also when the steps
\* between consecutive true values are not all equal.
C17_TimeInLifeOrder ==
    NoThresholdTime =>
        /\ Len(call.time) = Len(call.y_true)
        /\ call.time[1] = 0
        /\ \A i \in 2..Len(call.y_true) :
             call.time[i] - call.time[i - 1] =
                 Twice(call.y_true[i - 1] - call.y_true[i])
        /\ \A i \in 1..Len(call.y_true) :
             call.time[i] + Twice(call.y_true[i]) = Twice(call.y_true[1])

\* What the code does: the steps are the differences of the true values
\* taken from the end of the life backwards, so the time axis is the one
\* claimed exactly when the sequence of steps reads the same in both
\* directions (in particular when the steps are all equal).
TimeStepsInReverseOrder ==
    NoThresholdTime =>
        LET n == Len(call.y_true)
        IN  /\ Len(call.time) = n
            /\ call.time[1] = 0
            /\ \A i \in 2..n :
                 call.time[i] - call.time[i - 1] =
                     Twice(call.y_true[n - i + 1] - call.y_true[n - i + 2])
            /\ call.time[n] + Twice(call.y_true[n]) = Twice(call.y_true[1])

\* ---------------------------------------------------------------- C18
RECURSIVE Flatten(_)
Flatten(batches) ==
    IF Len(batches) = 0 THEN <<>> ELSE batches[1] \o Flatten(Tail(batches))

\* The batches returned so far by a Batcher that does not restart: none is
\* empty, all but the last are full, and together they are the items read so
\* far, once each, in iterator order.
BatchesSoFar(b) ==
    /\ \A k \in 1..Len(b.batches) :
         /\ Len(b.batches[k]) >= 1
         /\ Len(b.batches[k]) <= b.batch_size
         /\ k < Len(b.batches) => Len(b.batches[k]) = b.batch_size
    /\ Flatten(b.batches) = [k \in 1..b.iterator.i |-> k - 1]
    /\ Len(b.batches) <= __len__(b)

\* C18: iterating a Batcher with restart_at_end=False over N items yields
\* exactly ceil(N / batch_size) = len(batcher) batches, each non-empty, all
\* but the last of batch_size items, holding the N items once each in order,
\* and the call after the last batch raises StopIteration; with
\* restart_at_end=True and N >= 1 the Batcher restarts the iterator at its
\* end and never raises StopIteration.
C18_Batches ==
    [][(pc = "iterating" /\ bat' # bat) =>
         /\ ~bat.restart_at_end =>
              /\ BatchesSoFar(bat')
              /\ bat'.raised \in {"none", "StopIteration"}
              /\ bat'.raised = "StopIteration" <=> at_end(bat.iterator)
              /\ bat'.raised = "StopIteration" =>
                   /\ bat'.batches = bat.batches
                   /\ Len(bat.batches) = Ceil(bat.iterator.N, bat.batch_size)
                   /\ Len(bat.batches) = __len__(bat)
                   /\ Len(Flatten(bat.batches)) = bat.iterator.N
         /\ (bat.restart_at_end /\ bat.iterator.N >= 1) =>
              /\ bat'.raised = "none"
              /\ Len(bat'.batches) = Len(bat.batches) + 1
              /\ Len(bat'.batches[Len(bat'.batches)]) >= 1
              /\ at_end(bat.iterator) => bat'.batches[Len(bat'.batches)][1] = 0
      ]_vars

C18_Witness ==
    /\ pc = "raised"
    /\ ~bat.restart_at_end
    /\ bat.raised = "StopIteration"
    /\ bat.iterator.N = 4
    /\ bat.batch_size = 3
    /\ bat.batches = <<<<0, 1, 2>>, <<3>>>>

\* A Batcher that restarts has gone round: it has returned more items than
\* the iterator holds.
BatcherRestarted ==
    /\ bat.restart_at_end
    /\ bat.iterator.N >= 2
    /\ Len(Flatten(bat.batches)) > bat.iterator.N
    /\ bat.raised = "none"

====
